---- MODULE Spec2Model ----
(***************************************************************************)
(* Session-aware API access layer of the HR interview frontend:            *)
(*   - the zustand auth store (store/auth-store, two variants),            *)
(*   - the axios client wrapper (services/api/index.ts),                   *)
(*   - the auth resource functions (services/api/auth, two variants),      *)
(*   - the login mutation and the current-user query.                      *)
(* JavaScript runs every handler to completion, so each handler is one     *)
(* action; requests in flight are the only concurrency.                    *)
(***************************************************************************)
EXTENDS Integers, Sequences, FiniteSets, TLC

\* ------------------------------------------------------------------ bounds
MaxInFlight == 2
MaxObservers == 2
MaxMutations == 1

\* --------------------------------------------------------------- constants
Null == "null"

LSKeys == {"TOKEN", "REFRESH_TOKEN", "USER", "USER_UPDATED_AT"}

\* tokens that jwtDecode accepts, and one it rejects
ValidTokens == {"jwtA", "jwtB"}
GarbageToken == "garbage"
\* String(undefined), what localStorage.setItem stores for an undefined value
UndefinedString == "undefined"
ServerTokens == ValidTokens \cup {GarbageToken}

Profiles == {"userA", "userB"}

StoreVariants == {"A", "B"}
AuthApiVariants == {"swallow", "rethrow"}

LoginUrl == "/auth/login"
MeUrl == "/auth/me"
\* every url other than login and me is handled alike by the client
ResourceUrls == {"/candidates/1"}
Urls == {LoginUrl, MeUrl} \cup ResourceUrls

\* 0 stands for a transport failure without a response (status undefined);
\* 500 stands for every error status other than 401 and 403
Statuses == {0, 200, 401, 403, 500}

Routes == {"/auth", "/"}

InvalidCredentials == "Nevernye login ili parol"
AuthErrorDescribed == "Oshibka pri avtorizacii: <message>"
AuthErrorDefault == "Oshibka pri avtorizacii"
NoMsg == "none"

VARIABLES
    storeVariant,   \* which auth-store source is built
    authApiVariant, \* which services/api/auth source is built
    ls,             \* localStorage: key -> string or Null
    isLoggedIn,     \* auth store
    user,           \* auth store
    defAuth,        \* api.defaults.headers.common.Authorization (token or Null)
    route,          \* router location
    inflight,       \* requests sent and not yet answered
    ev,             \* the last handler run and what its caller observed
    queries,        \* react-query cache: key -> query state
    observers,      \* mounted useQuery hooks: parameter object -> how many
    mutations,      \* write requests in flight: kind -> how many
    call,           \* the last resource access function call and what its caller got
    pg,             \* a listing page: its url page parameter, listing and control
    me,             \* the current-user query of useGetCurrentUserInfo
    sent,           \* requests in flight with the token each left with
    form,           \* a listing page's filter form, its debounce timer and page
    chat            \* the public interview chat: step, messages, reply timers

sessionVars == <<storeVariant, authApiVariant, ls, isLoggedIn, user, defAuth,
                 route, inflight, ev>>

cacheVars == <<queries, observers, mutations>>

flowVars == <<sent, form, chat>>

uiVars == <<call, pg, me, flowVars>>

vars == <<storeVariant, authApiVariant, ls, isLoggedIn, user, defAuth, route,
          inflight, ev, queries, observers, mutations, call, pg, me, sent, form, chat>>

\* ----------------------------------------------------------- pure helpers
\* JavaScript truthiness of a stored string / nullable value
Truthy(x) == x /= Null /\ x /= ""

\* jwtDecode either returns the embedded profile or throws
CanDecode(t) == t \in ValidTokens

JwtDecode(t) == IF t = "jwtA" THEN "userA" ELSE "userB"

JsonStringify(u) == IF u = "userA" THEN "{userA}" ELSE "{userB}"

\* url.includes('/auth/login') over the urls the resource functions build
UrlIncludesLogin(url) == url = LoginUrl

\* the mutable program state as one value
Cur == [ls |-> ls, isLoggedIn |-> isLoggedIn, user |-> user,
        defAuth |-> defAuth, route |-> route]

Apply(s) ==
    /\ ls' = s.ls
    /\ isLoggedIn' = s.isLoggedIn
    /\ user' = s.user
    /\ defAuth' = s.defAuth
    /\ route' = s.route

RemoveItems(store, keys) == [k \in LSKeys |-> IF k \in keys THEN Null ELSE store[k]]

SetItem(store, key, value) == [store EXCEPT ![key] = value]

\* ------------------------------------------------------------- auth store
\* logout that flips the flag instead of clearing it
StoreLogout_toggle(v, s) ==
    [s EXCEPT !.ls = RemoveItems(s.ls, {"TOKEN", "REFRESH_TOKEN"}),
              !.user = Null, !.isLoggedIn = ~s.isLoggedIn]

\* useAuthStore.logout
StoreLogout(v, s) ==
    IF v = "A"
    THEN [s EXCEPT !.ls = RemoveItems(s.ls, LSKeys),
                   !.user = Null, !.isLoggedIn = FALSE]
    ELSE [s EXCEPT !.ls = RemoveItems(s.ls, {"TOKEN", "REFRESH_TOKEN"}),
                   !.user = Null, !.isLoggedIn = FALSE, !.route = "/auth"]

\* useAuthStore.setUser
StoreSetUser(v, s, u) ==
    IF v = "A"
    THEN [s EXCEPT !.user = u, !.isLoggedIn = (u /= Null)]
    ELSE [s EXCEPT !.user = u]

\* login whose catch block resets the flags but forgets to call logout()
StoreLogin_noCleanup(v, s) ==
    LET token == s.ls["TOKEN"] IN
    IF Truthy(token)
    THEN IF CanDecode(token)
         THEN [state |-> [s EXCEPT !.user = JwtDecode(token), !.isLoggedIn = TRUE],
               decodeFailed |-> FALSE, logged |-> FALSE, thrown |-> FALSE]
         ELSE [state |-> [s EXCEPT !.user = Null, !.isLoggedIn = FALSE],
               decodeFailed |-> TRUE, logged |-> TRUE, thrown |-> FALSE]
    ELSE [state |-> s, decodeFailed |-> FALSE, logged |-> FALSE, thrown |-> FALSE]

\* useAuthStore.login: the new state, whether the decode threw inside the try,
\* whether the catch logged it, and whether login() itself threw to its caller
StoreLogin(v, s) ==
    LET token == s.ls["TOKEN"] IN
    IF Truthy(token)
    THEN IF CanDecode(token)
         THEN [state |-> [s EXCEPT !.user = JwtDecode(token), !.isLoggedIn = TRUE],
               decodeFailed |-> FALSE, logged |-> FALSE, thrown |-> FALSE]
         ELSE [state |-> StoreLogout(v, s),
               decodeFailed |-> TRUE, logged |-> TRUE, thrown |-> FALSE]
    ELSE [state |-> s, decodeFailed |-> FALSE, logged |-> FALSE, thrown |-> FALSE]

\* getInitialUserState
GetInitialUserState(v, store) ==
    LET token == store["TOKEN"]
        u == IF Truthy(token) /\ CanDecode(token) THEN JwtDecode(token) ELSE Null
    IN [user |-> u, isLoggedIn |-> IF v = "A" THEN u /= Null ELSE TRUE]

\* ------------------------------------------------------------ http client
\* setApiToken
SetApiToken(s, token) ==
    IF Truthy(token) THEN [s EXCEPT !.defAuth = token]
    ELSE [s EXCEPT !.defAuth = Null]

\* request interceptor on top of the axios defaults: the token of the
\* Authorization header the request leaves with, Null for no header
RequestAuthHeader(s) ==
    LET token == s.ls["TOKEN"] IN
    IF Truthy(token) THEN token ELSE s.defAuth

\* does the response interceptor's error handler call logout()
InterceptorForcesLogout(status, url) ==
    \/ status = 401 /\ ~UrlIncludesLogin(url)
    \/ status = 403

\* interceptor that reacts to 403 only
ResponseInterceptor_no401(v, s, status, url) ==
    IF status = 403 THEN SetApiToken(StoreLogout(v, s), Null) ELSE s

\* interceptor without the login-url exclusion on 401
ResponseInterceptor_noLoginExclusion(v, s, status, url) ==
    IF status = 401 \/ status = 403
    THEN SetApiToken(StoreLogout(v, s), Null) ELSE s

\* response interceptor, error branch (runs for every non-2xx outcome)
ResponseInterceptor(v, s, status, url) ==
    LET s1 == IF status = 401 /\ ~UrlIncludesLogin(url)
              THEN SetApiToken(StoreLogout(v, s), Null) ELSE s
        s2 == IF status = 403
              THEN SetApiToken(StoreLogout(v, s1), Null) ELSE s1
    IN s2

\* ------------------------------------------------------------ last event
EvNone == [op |-> "none", url |-> "none", status |-> 0, body |-> Null,
           forced |-> FALSE, msg |-> NoMsg, result |-> "none",
           header |-> Null, decodeFailed |-> FALSE, logged |-> FALSE,
           thrown |-> FALSE, repeat |-> FALSE,
           atSurface |-> [isLoggedIn |-> FALSE, user |-> Null, token |-> Null]]

\* what a caller's catch block can observe of the session
Observed(s) == [isLoggedIn |-> s.isLoggedIn, user |-> s.user,
                token |-> s.ls["TOKEN"]]

\* ----------------------------------------------------------------- Init
\* localStorage survives reloads; no code writes REFRESH_TOKEN, so it can only
\* be there from outside; a cached profile is only there next to a token
InitStorages ==
    { [k \in LSKeys |->
         CASE k = "TOKEN" -> t
           [] k = "REFRESH_TOKEN" -> r
           [] k = "USER" -> IF c = Null THEN Null ELSE JsonStringify(c)
           [] OTHER -> IF c = Null THEN Null ELSE "ts"] :
      t \in {Null} \cup ServerTokens, r \in {Null, "refresh"},
      c \in {Null} \cup Profiles }

SessionInit ==
    /\ storeVariant \in StoreVariants
    /\ authApiVariant \in AuthApiVariants
    /\ ls \in {st \in InitStorages :
                 st["TOKEN"] = Null =>
                    st["REFRESH_TOKEN"] = Null /\ st["USER"] = Null}
    /\ isLoggedIn = GetInitialUserState(storeVariant, ls).isLoggedIn
    /\ user = GetInitialUserState(storeVariant, ls).user
    /\ defAuth = Null
    /\ route \in Routes
    /\ inflight = [u \in Urls |-> 0]
    /\ ev = EvNone

\* ------------------------------------------------------- sending requests
\* number of requests in flight, over all urls
RECURSIVE SumOver(_, _)
SumOver(f, S) ==
    IF S = {} THEN 0
    ELSE LET x == CHOOSE y \in S : TRUE IN f[x] + SumOver(f, S \ {x})

InFlightTotal == SumOver(inflight, Urls)

\* api.get / api.post: the request leaves with the header the request
\* interceptor and the axios defaults give it
SendRequest(url) ==
    /\ InFlightTotal < MaxInFlight
    /\ inflight' = [inflight EXCEPT ![url] = @ + 1]
    /\ ev' = [EvNone EXCEPT !.op = "send", !.url = url,
                            !.header = RequestAuthHeader(Cur)]
    /\ UNCHANGED <<uiVars, queries, observers, mutations, storeVariant, authApiVariant, ls, isLoggedIn, user,
                   defAuth, route>>

\* AuthForm.onLoginSubmit -> useAuthorization.mutate -> authorization()
SubmitLogin == SendRequest(LoginUrl)

\* useGetCurrentUserInfo's queryFn -> getCurrentUser()
FetchCurrentUser == SendRequest(MeUrl)

\* getVacancies / getCandidateById
ReadResource == \E url \in ResourceUrls : SendRequest(url)

\* ------------------------------------------------------------ login flow
\* String(value) as localStorage.setItem stores it; Null is JS undefined here
ToStorageString(x) == IF x = Null THEN UndefinedString ELSE x

\* what authorization() hands to the mutation: in the "rethrow" source the
\* response body, in the "swallow" source the axios response object itself,
\* whose access_token property is undefined
AccessTokenSeenByMutation(av, body) == IF av = "rethrow" THEN body ELSE Null

\* useAuthorization.onSuccess followed by AuthForm's onSuccess (navigate('/'))
LoginOnSuccess(v, s, accessToken) ==
    LET s1 == [s EXCEPT !.ls = SetItem(s.ls, "TOKEN", ToStorageString(accessToken))]
        s2 == SetApiToken(s1, accessToken)
        out == StoreLogin(v, s2)
    IN [out EXCEPT !.state = [out.state EXCEPT !.route = "/"]]

\* message of the Error the login mutation ends with, NoMsg when it succeeds
LoginFailureMsg(av, status, body) ==
    IF status = 200
    THEN IF av = "rethrow" /\ body = Null THEN AuthErrorDefault ELSE NoMsg
    ELSE IF av = "rethrow"
         THEN IF status = 401 THEN InvalidCredentials ELSE AuthErrorDescribed
         ELSE InvalidCredentials

LoginResponse ==
    \E url \in {LoginUrl}, status \in Statuses, body \in {Null} \cup ServerTokens :
      /\ inflight[url] > 0
      /\ status /= 200 => body = Null
      /\ LET pre == Cur
             s1 == IF status = 200 THEN pre
                   ELSE ResponseInterceptor(storeVariant, pre, status, url)
             msg == LoginFailureMsg(authApiVariant, status, body)
             ok == msg = NoMsg
             out == IF ok
                    THEN LoginOnSuccess(storeVariant, s1,
                            AccessTokenSeenByMutation(authApiVariant, body))
                    ELSE [state |-> s1, decodeFailed |-> FALSE,
                          logged |-> FALSE, thrown |-> FALSE]
         IN /\ Apply(out.state)
            /\ ev' = [EvNone EXCEPT !.op = "response", !.url = url,
                        !.status = status, !.body = body,
                        !.forced = (status /= 200
                                    /\ InterceptorForcesLogout(status, url)),
                        !.msg = msg,
                        !.result = IF ok THEN "ok" ELSE "fail",
                        !.decodeFailed = out.decodeFailed,
                        !.atSurface = Observed(s1)]
      /\ inflight' = [inflight EXCEPT ![url] = @ - 1]
      /\ UNCHANGED <<uiVars, queries, observers, mutations, storeVariant, authApiVariant>>

\* ------------------------------------------------------ current-user query
\* queryFn of useGetCurrentUserInfo around getCurrentUser()
MeQueryFn(av, s, status, body) ==
    IF status = 200
    THEN [s EXCEPT !.ls = SetItem(SetItem(s.ls, "USER", JsonStringify(body)),
                                  "USER_UPDATED_AT", "ts")]
    ELSE IF av = "swallow"
         THEN [s EXCEPT !.ls = RemoveItems(s.ls, {"USER", "USER_UPDATED_AT"})]
         ELSE s

MeResponse ==
    \E url \in {MeUrl}, status \in Statuses, body \in Profiles :
      /\ inflight[url] > 0
      /\ LET pre == Cur
             s1 == IF status = 200 THEN pre
                   ELSE ResponseInterceptor(storeVariant, pre, status, url)
         IN /\ Apply(MeQueryFn(authApiVariant, s1, status, body))
            /\ ev' = [EvNone EXCEPT !.op = "response", !.url = url,
                        !.status = status,
                        !.forced = (status /= 200
                                    /\ InterceptorForcesLogout(status, url)),
                        !.result = IF status = 200 THEN "ok"
                                   ELSE IF authApiVariant = "swallow"
                                        THEN "null" ELSE "fail",
                        !.atSurface = Observed(s1)]
      /\ inflight' = [inflight EXCEPT ![url] = @ - 1]
      /\ UNCHANGED <<uiVars, queries, observers, mutations, storeVariant, authApiVariant>>

\* ------------------------------------------------------- resource reads
ResourceResponse ==
    \E url \in ResourceUrls, status \in Statuses :
      /\ inflight[url] > 0
      /\ LET pre == Cur
             s1 == IF status = 200 THEN pre
                   ELSE ResponseInterceptor(storeVariant, pre, status, url)
         IN /\ Apply(s1)
            /\ ev' = [EvNone EXCEPT !.op = "response", !.url = url,
                        !.status = status,
                        !.forced = (status /= 200
                                    /\ InterceptorForcesLogout(status, url)),
                        !.result = IF status = 200 THEN "ok" ELSE "null",
                        !.atSurface = Observed(s1)]
      /\ inflight' = [inflight EXCEPT ![url] = @ - 1]
      /\ UNCHANGED <<uiVars, queries, observers, mutations, storeVariant, authApiVariant>>

\* ---------------------------------------------------- store operations
\* UserDropdown's logout item / AuthForm.handleLogout: logout(); navigate('/auth')
UserLogout ==
    /\ Apply([StoreLogout(storeVariant, Cur) EXCEPT !.route = "/auth"])
    /\ ev' = [EvNone EXCEPT !.op = "logout", !.repeat = (ev.op = "logout")]
    /\ UNCHANGED <<uiVars, queries, observers, mutations, storeVariant, authApiVariant, inflight>>

\* useAuthStore.getState().login()
CallLogin ==
    LET out == StoreLogin(storeVariant, Cur) IN
    /\ Apply(out.state)
    /\ ev' = [EvNone EXCEPT !.op = "login",
                            !.decodeFailed = out.decodeFailed,
                            !.logged = out.logged, !.thrown = out.thrown]
    /\ UNCHANGED <<uiVars, queries, observers, mutations, storeVariant, authApiVariant, inflight>>

\* useAuthStore.getState().setUser(u)
CallSetUser ==
    \E u \in {Null} \cup Profiles :
      /\ Apply(StoreSetUser(storeVariant, Cur, u))
      /\ ev' = [EvNone EXCEPT !.op = "setUser"]
      /\ UNCHANGED <<uiVars, queries, observers, mutations, storeVariant, authApiVariant, inflight>>

\* ------------------------------------------------------------- routing
\* ProtectedRoute / AuthProtectedRoute on render
\* a router whose elements are not wrapped in the guards
GuardTarget_noGuard(path, loggedIn) == path

\* AuthProtectedRoute with its test inverted
GuardTarget_bounce(path, loggedIn) ==
    IF path = "/auth"
    THEN IF loggedIn THEN path ELSE "/"
    ELSE IF loggedIn THEN path ELSE "/auth"

GuardTarget(path, loggedIn) ==
    IF path = "/auth"
    THEN IF loggedIn THEN "/" ELSE path
    ELSE IF loggedIn THEN path ELSE "/auth"

\* the page inside the guard of each route of the router
PageAt(path) == IF path = "/auth" THEN "AuthPage" ELSE "HomePage"

\* what the route's element renders: its children, or <Navigate/>
RouteElement(path, loggedIn) ==
    IF GuardTarget(path, loggedIn) = path THEN PageAt(path) ELSE "Navigate"

GuardRedirect ==
    /\ route \in Routes
    /\ GuardTarget(route, isLoggedIn) /= route
    /\ route' = GuardTarget(route, isLoggedIn)
    /\ ev' = [EvNone EXCEPT !.op = "redirect"]
    /\ UNCHANGED <<uiVars, queries, observers, mutations, storeVariant, authApiVariant, ls, isLoggedIn, user,
                   defAuth, inflight>>

Navigate ==
    \E p \in Routes :
      /\ p /= route
      /\ route' = p
      /\ ev' = [EvNone EXCEPT !.op = "navigate"]
      /\ UNCHANGED <<uiVars, queries, observers, mutations, storeVariant, authApiVariant, ls, isLoggedIn, user,
                     defAuth, inflight>>

\* the paths a user can type: the routes of the router and one it does not
\* have
RequestedPaths == Routes \cup {"/nowhere"}

\* the browser is pointed at a path
OpenPath ==
    \E p \in RequestedPaths :
      /\ p /= route
      /\ route' = p
      /\ ev' = [EvNone EXCEPT !.op = "navigate"]
      /\ UNCHANGED <<uiVars, queries, observers, mutations, storeVariant, authApiVariant, ls, isLoggedIn, user,
                     defAuth, inflight>>

\* path '*': <Navigate to="/" replace />
NotFoundRedirect ==
    /\ route \notin Routes
    /\ route' = "/"
    /\ ev' = [EvNone EXCEPT !.op = "notFound"]
    /\ UNCHANGED <<uiVars, queries, observers, mutations, storeVariant, authApiVariant, ls, isLoggedIn, user,
                   defAuth, inflight>>

\* ===================================================== read cache
\* The query hooks hand a key and a fetcher to react-query; the cache entry
\* of a key, its fetch in flight and the requests of superseded fetches
\* (the fetchers take no abort signal, so a cancelled fetch's request lives on)
NoData == "none"
ListKind == "get-candidates"
ByIdKind == "get-candidate-by-id"
JsUndefined == "<undefined>"

Param(k, v) == [k |-> k, v |-> v]

\* parameter objects as the callers build them, properties in insertion order
ReadParams ==
    { <<Param("page", "1"), Param("search", "a")>>,
      <<Param("search", "a"), Param("page", "1")>> }

CandidateIds == {"1"}

\* JSON.stringify of a flat object: properties in insertion order, undefined
\* values left out
RECURSIVE JsonStringifyParams(_)
JsonStringifyParams(p) ==
    IF p = <<>> THEN <<>>
    ELSE (IF Head(p).v = JsUndefined THEN <<>> ELSE <<Head(p).k, Head(p).v>>)
         \o JsonStringifyParams(Tail(p))

\* queryKey of useGetCandidates / useGetVacancies / useGetInterviews
ListQueryKey(params) == <<ListKind, JsonStringifyParams(params)>>

\* queryKey of useGetCandidateById / useGetVacancyById
ByIdQueryKey(id) == <<ByIdKind, <<id>>>>

\* the parameter object a mounted hook was called with, and its key
HookParams == ReadParams \cup {<<Param("id", id)>> : id \in CandidateIds}

HookKey(p) == IF p[1].k = "id" THEN ByIdQueryKey(p[1].v) ELSE ListQueryKey(p)

AllKeys == {HookKey(p) : p \in HookParams}

\* the list hooks pass no staleTime (0), the by-id hooks 5 minutes
StaleTimeZero(key) == key[1] = ListKind

\* data: NoData, "null" (the sentinel of a failed fetch) or "data";
\* fetchOld: the fetch in flight was sent before the latest successful write
\* to what it reads, so its answer may be the value from before that write
EmptyQuery == [data |-> NoData, fetching |-> FALSE, fetchOld |-> FALSE,
               stale |-> TRUE, orphans |-> 0]

MutationKinds == {"create", "update", "delete"}

\* a hook that never fetches again once its entry holds an answer
UseQueryRead_keepsAnswer(q) == ~q.fetching /\ q.data = NoData

\* a hook that calls its fetcher on every mount, past the cache
UseQueryRead_noDedup(q) == q.data = NoData \/ q.stale

\* useQuery on mount: does this read start a network call
UseQueryRead(q) == ~q.fetching /\ (q.data = NoData \/ q.stale)

MountedTotal == SumOver(observers, HookParams)

\* requests sent and not yet answered, over all keys: the fetches in flight
\* and the requests of superseded fetches
RequestsOf(qs) ==
    SumOver([key \in AllKeys |->
               (IF qs[key].fetching THEN 1 ELSE 0) + qs[key].orphans], AllKeys)

MountOn(params) ==
    LET key == HookKey(params)
        q == queries[key]
        start == UseQueryRead(q) IN
    /\ MountedTotal < MaxObservers
    /\ observers' = [observers EXCEPT ![params] = @ + 1]
    /\ queries' = [queries EXCEPT ![key] =
                     IF start
                     THEN [q EXCEPT !.fetching = TRUE, !.fetchOld = FALSE,
                                    !.orphans = @ + (IF q.fetching THEN 1 ELSE 0)]
                     ELSE q]
    /\ RequestsOf(queries') <= MaxInFlight
    /\ UNCHANGED <<mutations>>
    /\ UNCHANGED <<sessionVars, uiVars>>

\* a page renders useGetCandidates(params)
ReadList == \E p \in ReadParams : MountOn(p)

\* a page renders useGetCandidateById(id)
ReadById == \E id \in CandidateIds : MountOn(<<Param("id", id)>>)

Unmount ==
    \E p \in HookParams :
      /\ observers[p] > 0
      /\ observers' = [observers EXCEPT ![p] = @ - 1]
      /\ UNCHANGED <<queries, mutations>>
      /\ UNCHANGED <<sessionVars, uiVars>>

\* the answer to the query's current fetch; getCandidates / getCandidateById
\* turn a failure into the null sentinel, which the cache stores as data
ResolveFetch ==
    \E key \in AllKeys, ok \in BOOLEAN :
      /\ queries[key].fetching
      /\ queries' = [queries EXCEPT ![key] =
                       [@ EXCEPT !.data = IF ok THEN "data" ELSE "null",
                                 !.fetching = FALSE,
                                 !.fetchOld = FALSE,
                                 !.stale = StaleTimeZero(key)]]
      /\ UNCHANGED <<observers, mutations>>
      /\ UNCHANGED <<sessionVars, uiVars>>

\* the answer to a superseded fetch's request: dropped
ResolveOrphan ==
    \E key \in AllKeys :
      /\ queries[key].orphans > 0
      /\ queries' = [queries EXCEPT ![key] = [@ EXCEPT !.orphans = @ - 1]]
      /\ UNCHANGED <<observers, mutations>>
      /\ UNCHANGED <<sessionVars, uiVars>>

\* the 5 minutes of a by-id entry pass
StaleTimeElapses ==
    \E key \in AllKeys :
      /\ ~queries[key].stale
      /\ queries' = [queries EXCEPT ![key] = [@ EXCEPT !.stale = TRUE]]
      /\ UNCHANGED <<observers, mutations>>
      /\ UNCHANGED <<sessionVars, uiVars>>

IsActive(key) == \E p \in HookParams : observers[p] > 0 /\ HookKey(p) = key

\* invalidation that leaves the entries nobody is mounted on untouched
InvalidateQuery_activeOnly(q, active) ==
    IF ~active THEN q
    ELSE IF q.fetching
         THEN IF q.data /= NoData
              THEN [q EXCEPT !.stale = TRUE, !.orphans = @ + 1]
              ELSE [q EXCEPT !.stale = TRUE]
         ELSE [q EXCEPT !.stale = TRUE, !.fetching = TRUE]

\* queryClient.invalidateQueries on one matching entry: mark it, and refetch
\* it when a hook is mounted on it (cancelRefetch defaults to true: a fetch
\* in flight of an entry that holds data is cancelled and started again, a
\* fetch in flight of an entry without data is left to finish)
InvalidateQuery(q, active) ==
    IF ~active THEN [q EXCEPT !.stale = TRUE]
    ELSE IF q.fetching
         THEN IF q.data /= NoData
              THEN [q EXCEPT !.stale = TRUE, !.orphans = @ + 1, !.fetchOld = FALSE]
              ELSE [q EXCEPT !.stale = TRUE]
         ELSE [q EXCEPT !.stale = TRUE, !.fetching = TRUE, !.fetchOld = FALSE]

\* the filters the success handlers pass to invalidateQueries: the list
\* prefix ['get-...'] for every write, ['get-...-by-id', id] for an update
InvalidationFilters(kind, id) ==
    IF kind = "update" THEN {<<ByIdKind, <<id>>>>, <<ListKind>>}
    ELSE {<<ListKind>>}

\* react-query's partial key match: the filter is a prefix of the key
QueryKeyMatches(filter, key) ==
    /\ filter[1] = key[1]
    /\ Len(filter) = 2 => filter[2] = key[2]

Invalidated(kind, id, key) ==
    \E f \in InvalidationFilters(kind, id) : QueryKeyMatches(f, key)

\* what a committed write makes of an entry that shows the written record:
\* the answer to its fetch in flight may be the earlier value
ServerWrote(q) == [q EXCEPT !.fetchOld = q.fetching]

\* the entries whose server data a write changes: every listing, and the
\* record itself for an update
WrittenTo(kind, id, key) ==
    key[1] = ListKind \/ (kind \in {"update", "delete"} /\ key = ByIdQueryKey(id))

\* does the hook's onSuccess get to its invalidateQueries calls: the create
\* and update hooks return at once for the null of a failed write, the
\* delete hooks have no such test
HandlerInvalidates(kind, ok) == ok \/ kind = "delete"

MutationsInFlight == SumOver(mutations, MutationKinds)

\* useCreateCandidate.mutate
StartCreate ==
    /\ MutationsInFlight < MaxMutations
    /\ mutations' = [mutations EXCEPT !["create"] = @ + 1]
    /\ UNCHANGED <<queries, observers>>
    /\ UNCHANGED <<sessionVars, uiVars>>

\* VacancyPage.handleUpdateVacancy: the form is rendered once the record is
\* loaded and the page mounted on it
StartUpdate ==
    \E id \in CandidateIds :
      /\ MutationsInFlight < MaxMutations
      /\ IsActive(ByIdQueryKey(id))
      /\ queries[ByIdQueryKey(id)].data = "data"
      /\ mutations' = [mutations EXCEPT !["update"] = @ + 1]
      /\ UNCHANGED <<queries, observers>>
      /\ UNCHANGED <<sessionVars, uiVars>>

\* a write answered: on success the server holds the new record and the
\* success handler invalidates; a failure comes back as null and the handler
\* returns at once
MutationAnswered(kind, id, ok) ==
    /\ mutations[kind] > 0
    /\ mutations' = [mutations EXCEPT ![kind] = @ - 1]
    /\ LET written == [key \in AllKeys |->
                         IF ok /\ WrittenTo(kind, id, key)
                         THEN ServerWrote(queries[key]) ELSE queries[key]]
           after == [key \in AllKeys |->
                       IF HandlerInvalidates(kind, ok) /\ Invalidated(kind, id, key)
                       THEN InvalidateQuery(written[key], IsActive(key))
                       ELSE written[key]]
       IN /\ RequestsOf(after) <= MaxInFlight
          /\ queries' = after
    /\ UNCHANGED <<observers>>
    /\ UNCHANGED <<sessionVars, uiVars>>

MutationSettles(kind, id) == \E ok \in BOOLEAN : MutationAnswered(kind, id, ok)

\* useCreateCandidate.onSuccess
CreateSettles == \E id \in CandidateIds : MutationSettles("create", id)

\* useUpdateVacancy.onSuccess (useUpdateCandidate and useUpdateInterview are
\* written the same way)
UpdateSettles == \E id \in CandidateIds : MutationSettles("update", id)

\* useDeleteVacancy.mutate(id)
StartDelete ==
    /\ MutationsInFlight < MaxMutations
    /\ mutations' = [mutations EXCEPT !["delete"] = @ + 1]
    /\ UNCHANGED <<queries, observers>>
    /\ UNCHANGED <<sessionVars, uiVars>>

\* useDeleteVacancy.onSuccess (useDeleteCandidate and useDeleteInterview are
\* written the same way)
DeleteSettles == \E id \in CandidateIds : MutationSettles("delete", id)

NetInFlight(key) == (IF queries[key].fetching THEN 1 ELSE 0) + queries[key].orphans

\* ============================================ resource access functions
\* What a resource access function makes of the answer to its request, and
\* what the hook and the page above it make of that.
ListReadOps == {"getCandidates", "getVacancies", "getInterviews"}

ReadOps == ListReadOps \cup {"getCandidateById", "getVacancyById",
                             "getInterviewById", "getCurrentUser"}

WriteOps == {"createCandidate", "updateCandidate", "deleteCandidate",
             "uploadCandidateResume", "createVacancy", "updateVacancy",
             "deleteVacancy", "createInterview", "updateInterview",
             "deleteInterview", "startInterview", "endInterview"}

\* the writes typed Promise<boolean>
BooleanOps == {"deleteCandidate", "deleteVacancy", "deleteInterview",
               "startInterview", "endInterview"}

\* values thrown to the catch block: an AxiosError with a response (body
\* message and status text present, empty or absent), an AxiosError without
\* one (the request never got an answer), and anything else
Absent == "<absent>"
ServerMessages == {Absent, "", "server message"}
StatusTexts == {"", "Bad Request"}
ErrorStatuses == {400, 401, 403, 500}

AxiosErrors ==
    [kind : {"axios"}, status : ErrorStatuses, message : ServerMessages,
     statusText : StatusTexts]
    \cup {[kind |-> "axios", status |-> 0, message |-> Absent, statusText |-> Absent]}

ThrownValues == AxiosErrors \cup {[kind |-> "other", status |-> 0, message |-> Absent,
                                    statusText |-> Absent]}

NoError == [kind |-> "none", status |-> 200, message |-> Absent, statusText |-> Absent]

UnknownError == "Neizvestnaya oshibka"

DefaultMessage(op) == "Oshibka: " \o op

\* a || b of JavaScript on strings: undefined and '' are falsy
OrElse(a, b) == IF a = Absent \/ a = "" THEN b ELSE a

\* handleApiError with the status text left out of the choice
HandleApiError_noStatusText(error, defaultMessage) ==
    IF error.kind = "axios"
    THEN <<defaultMessage, ": ", OrElse(error.message, UnknownError)>>
    ELSE <<defaultMessage>>

\* handleApiError: the pieces of the string it returns
HandleApiError(error, defaultMessage) ==
    IF error.kind = "axios"
    THEN <<defaultMessage, ": ",
           OrElse(OrElse(error.message, error.statusText), UnknownError)>>
    ELSE <<defaultMessage>>

NoMessage == <<>>

\* the function's try/catch: what it returns or throws, the toast it shows
\* and the message handleApiError built in the catch block; getCurrentUser
\* rethrows in one of its two sources, every other function returns a
\* sentinel
ResourceAccess(av, op, error) ==
    IF error = NoError
    THEN [thrown |-> FALSE,
          value |-> IF op \in BooleanOps THEN "true" ELSE "payload",
          message |-> NoMessage,
          toast |-> IF op \in WriteOps THEN "success" ELSE "none"]
    ELSE LET message == HandleApiError(error, DefaultMessage(op)) IN
         IF op = "getCurrentUser"
         THEN [thrown |-> av = "rethrow",
               value |-> IF av = "rethrow" THEN "none" ELSE "null",
               message |-> message, toast |-> "none"]
         ELSE [thrown |-> FALSE,
               value |-> IF op \in BooleanOps THEN "false" ELSE "null",
               message |-> message, toast |-> "error"]

\* useQuery around a read: a thrown value puts the query in its error state,
\* anything returned is its data
QueryState(result) ==
    IF result.thrown THEN [status |-> "error", data |-> NoData]
    ELSE [status |-> "success", data |-> result.value]

\* CandidatesPage / VacanciesPage: the banner with the retry button when the
\* query holds an error, otherwise the listing of data?.candidates || []
ListPageView(query) ==
    IF query.status = "error" THEN "banner"
    ELSE IF query.data = "payload" THEN "listing" ELSE "emptyListing"

\* useMutation around a write: onError for a thrown value, onSuccess for
\* anything returned
MutationCallback(result) == IF result.thrown THEN "onError" ELSE "onSuccess"

NoHandler == [toast |-> "none", invalidates |-> FALSE]

\* the handler the mutation hook runs: the notification it shows and
\* whether it invalidates cache entries; the create and update hooks leave
\* onSuccess at once for a null result, the delete, start, end and upload
\* hooks have no such test
MutationHandler(op, callback, result) ==
    IF callback = "onError" THEN [toast |-> "error", invalidates |-> FALSE]
    ELSE IF op \in BooleanOps THEN [toast |-> "success", invalidates |-> TRUE]
    ELSE IF op = "uploadCandidateResume"
         THEN [toast |-> "success", invalidates |-> FALSE]
    ELSE IF result.value = "null" THEN NoHandler
    ELSE [toast |-> "success", invalidates |-> TRUE]

CallNone == [op |-> "none", error |-> NoError,
             result |-> [thrown |-> FALSE, value |-> "none",
                         message |-> NoMessage, toast |-> "none"],
             view |-> "none", callback |-> "none", handler |-> NoHandler]

\* a read hook's queryFn runs and the page renders its outcome
CallRead ==
    \E op \in ReadOps, error \in {NoError} \cup ThrownValues :
      LET result == ResourceAccess(authApiVariant, op, error) IN
      /\ call' = [op |-> op, error |-> error, result |-> result,
                  view |-> IF op \in ListReadOps
                           THEN ListPageView(QueryState(result)) ELSE "none",
                  callback |-> "none", handler |-> NoHandler]
      /\ UNCHANGED <<sessionVars, cacheVars, pg, me, flowVars>>

\* a write hook's mutationFn runs and the mutation calls its handler
CallWrite ==
    \E op \in WriteOps, error \in {NoError} \cup ThrownValues :
      LET result == ResourceAccess(authApiVariant, op, error) IN
      /\ call' = [op |-> op, error |-> error, result |-> result,
                  view |-> "none", callback |-> MutationCallback(result),
                  handler |-> MutationHandler(op, MutationCallback(result), result)]
      /\ UNCHANGED <<sessionVars, cacheVars, pg, me, flowVars>>

\* ======================================================= listing pages
\* VacanciesPage and CandidatesPage: the page parameter of the url, the
\* listing read made for it and the pagination control.
MaxPages == 3

ListingPages == {"vacancies", "candidates"}

\* JavaScript numbers as far as the pages use them: an integer or NaN
Num(n) == [nan |-> FALSE, n |-> n]

NaN == [nan |-> TRUE, n |-> 0]

DigitChars == <<"0", "1", "2", "3", "4", "5", "6", "7", "8", "9">>

IsDigit(c) == \E i \in 1..10 : DigitChars[i] = c

DigitValue(c) == (CHOOSE i \in 1..10 : DigitChars[i] = c) - 1

RECURSIVE DigitsOf(_)
DigitsOf(n) == IF n < 10 THEN <<DigitChars[n + 1]>>
               ELSE DigitsOf(n \div 10) \o <<DigitChars[(n % 10) + 1]>>

\* String(page)
NumberToString(x) == IF x.nan THEN <<"N", "a", "N">>
               ELSE IF x.n < 0 THEN <<"-">> \o DigitsOf(0 - x.n)
               ELSE DigitsOf(x.n)

\* the value of the longest prefix of digits, read from the left
RECURSIVE DigitPrefix(_, _, _)
DigitPrefix(str, i, acc) ==
    IF i > Len(str) \/ ~IsDigit(str[i]) THEN acc
    ELSE DigitPrefix(str, i + 1, 10 * acc + DigitValue(str[i]))

\* parseInt(str, 10): an optional sign, then digits up to the first other
\* character; NaN when there is no digit
ParseInt(str) ==
    LET neg == Len(str) > 0 /\ str[1] = "-"
        from == IF neg THEN 2 ELSE 1 IN
    IF from > Len(str) \/ ~IsDigit(str[from]) THEN NaN
    ELSE Num(IF neg THEN 0 - DigitPrefix(str, from, 0)
             ELSE DigitPrefix(str, from, 0))

\* searchParams.get('page') of a url without the parameter
NullParam == <<"null">>

\* pageParam ? parseInt(pageParam, 10) : 1
CurrentPage(pageParam) ==
    IF pageParam = NullParam \/ pageParam = <<>> THEN Num(1)
    ELSE ParseInt(pageParam)

\* Math.max(1, x) and Math.min(t, x): NaN if an argument is NaN
MathMax(a, x) == IF x.nan THEN NaN ELSE Num(IF x.n > a THEN x.n ELSE a)

MathMin(a, x) == IF x.nan THEN NaN ELSE Num(IF x.n < a THEN x.n ELSE a)

Plus(x, k) == IF x.nan THEN NaN ELSE Num(x.n + k)

\* the page parameters a url can carry
UrlPageParams ==
    {NullParam, <<>>, <<"x">>, <<"2", "x">>}
    \cup {NumberToString(Num(n)) : n \in (0 - 1)..(MaxPages + 1)}

\* `data` of the listing query: undefined/null, or the rows of one page (0:
\* no rows) with the listing's total_pages
NoPage == [loaded |-> FALSE, rows |-> 0, total_pages |-> 0]

PgNone == [page |-> "none", serverPages |-> 0, param |-> NullParam,
           reading |-> FALSE, data |-> NoPage]

InRange(x, last) == ~x.nan /\ x.n \in 1..last

\* data?.total_pages || 1
TotalPages(data) == IF data.loaded /\ data.total_pages /= 0
                    THEN data.total_pages ELSE 1

\* {data && data.total > 0 && <Pagination/>}; VacanciesPagination renders
\* nothing for a single page
ControlShown ==
    /\ pg.page /= "none" /\ pg.data.loaded
    /\ pg.page = "vacancies" => TotalPages(pg.data) > 1

\* setPage / setFilters: the url changes, the page renders again and its
\* hook reads the listing for the new key while the rows of the previous
\* key stay in `data` (placeholderData: keepPreviousData)
SetPageParam(str) ==
    /\ pg' = [pg EXCEPT !.param = str,
                        !.reading = @ \/ CurrentPage(str) /= CurrentPage(pg.param)]
    /\ UNCHANGED <<sessionVars, cacheVars, call, me, flowVars>>

\* the page is opened at a url
OpenUrl ==
    \E page \in ListingPages, total \in 1..MaxPages, str \in UrlPageParams :
        /\ pg' = [page |-> page, serverPages |-> total, param |-> str,
                  reading |-> TRUE, data |-> NoPage]
        /\ UNCHANGED <<sessionVars, cacheVars, call, me, flowVars>>

\* the listing read for the current page is answered: the rows of that
\* page, no rows for a page the listing does not have, or a failure, which
\* the fetcher turns into null
LoadListing ==
    /\ pg.reading
    /\ \E ok \in BOOLEAN :
         pg' = [pg EXCEPT
                  !.reading = FALSE,
                  !.data = IF ~ok THEN NoPage
                           ELSE [loaded |-> TRUE,
                                 rows |-> IF InRange(CurrentPage(pg.param), pg.serverPages)
                                          THEN CurrentPage(pg.param).n ELSE 0,
                                 total_pages |-> pg.serverPages]]
    /\ UNCHANGED <<sessionVars, cacheVars, call, me, flowVars>>

ClickPrevious ==
    /\ ControlShown
    /\ LET cur == CurrentPage(pg.param) IN
       IF pg.page = "vacancies"
       THEN SetPageParam(NumberToString(MathMax(1, Plus(cur, 0 - 1))))
       ELSE /\ ~cur.nan /\ cur.n > 1
            /\ SetPageParam(NumberToString(Plus(cur, 0 - 1)))

ClickNext ==
    /\ ControlShown
    /\ LET cur == CurrentPage(pg.param)
           totalPages == TotalPages(pg.data) IN
       IF pg.page = "vacancies"
       THEN SetPageParam(NumberToString(MathMin(totalPages, Plus(cur, 1))))
       ELSE /\ ~cur.nan /\ cur.n < totalPages
            /\ SetPageParam(NumberToString(Plus(cur, 1)))

\* a page number link of VacanciesPagination
ClickNumber ==
    /\ ControlShown /\ pg.page = "vacancies"
    /\ \E page \in 1..TotalPages(pg.data) : SetPageParam(NumberToString(Num(page)))

\* the filter form: params.set('page', '1')
SetFilters ==
    /\ pg.page /= "none"
    /\ SetPageParam(<<"1">>)

\* =================================================== current-user hook
\* useGetCurrentUserInfo: the cached profile of localStorage, its age, and
\* the ['currentUser'] entry of the query cache.
NoUserData == "undefined"

\* JSON.parse of what JsonStringify wrote
JsonParse(str) == IF str = "{userA}" THEN "userA" ELSE "userB"

\* getCachedUser()
GetCachedUser(store) == IF store["USER"] = Null THEN Null ELSE JsonParse(store["USER"])

\* isStale: no timestamp, or one more than five minutes old
CacheIsStale(store, old) == store["USER_UPDATED_AT"] = Null \/ old

MeNone == [exists |-> FALSE, mounted |-> FALSE, data |-> NoUserData,
           status |-> "pending", fetching |-> FALSE, stale |-> FALSE,
           cacheOld |-> FALSE]

\* the entry useQuery builds on first use: with initialData it is a
\* successful, fresh entry; without, a pending one whose fetch starts
NewUserQuery(store, old) ==
    IF GetCachedUser(store) /= Null /\ ~CacheIsStale(store, old)
    THEN [exists |-> TRUE, mounted |-> TRUE, data |-> GetCachedUser(store),
          status |-> "success", fetching |-> FALSE, stale |-> FALSE,
          cacheOld |-> old]
    ELSE [exists |-> TRUE, mounted |-> TRUE, data |-> NoUserData,
          status |-> "pending", fetching |-> TRUE, stale |-> TRUE,
          cacheOld |-> old]

\* a component using the hook mounts
MountUserHook ==
    /\ ~me.mounted
    /\ me' = IF ~me.exists THEN NewUserQuery(ls, me.cacheOld)
             ELSE [me EXCEPT !.mounted = TRUE, !.fetching = @ \/ me.stale]
    /\ UNCHANGED <<sessionVars, cacheVars, call, pg, flowVars>>

UnmountUserHook ==
    /\ me.mounted
    /\ me' = [me EXCEPT !.mounted = FALSE]
    /\ UNCHANGED <<sessionVars, cacheVars, call, pg, flowVars>>

\* GET /auth/me answers with a profile
UserFetchSucceeds ==
    /\ me.fetching
    /\ \E body \in Profiles :
         /\ Apply(MeQueryFn(authApiVariant, Cur, 200, body))
         /\ me' = [me EXCEPT !.data = body, !.status = "success",
                             !.fetching = FALSE, !.stale = FALSE,
                             !.cacheOld = FALSE]
    /\ UNCHANGED <<storeVariant, authApiVariant, inflight, ev, cacheVars, call, pg, flowVars>>

\* GET /auth/me fails (server error or no answer): getCurrentUser returns
\* null, which the query stores as its data, or throws, which puts the
\* query in its error state with the data it had
UserFetchFails ==
    /\ me.fetching
    /\ Apply(MeQueryFn(authApiVariant, Cur, 500, Null))
    /\ me' = IF authApiVariant = "swallow"
             THEN [me EXCEPT !.data = Null, !.status = "success",
                             !.fetching = FALSE, !.stale = FALSE]
             ELSE [me EXCEPT !.status = "error", !.fetching = FALSE,
                             !.stale = TRUE]
    /\ UNCHANGED <<storeVariant, authApiVariant, inflight, ev, cacheVars, call, pg, flowVars>>

\* staleTime and the five minutes of isStale run out
FiveMinutesPass ==
    /\ me' = [me EXCEPT !.stale = me.exists,
                        !.cacheOld = ls["USER_UPDATED_AT"] /= Null]
    /\ me' /= me
    /\ UNCHANGED <<sessionVars, cacheVars, call, pg, flowVars>>

\* the browser loads the application again: the query cache starts empty,
\* localStorage is kept
ReloadApplication ==
    /\ me.exists
    /\ me' = [MeNone EXCEPT !.cacheOld = me.cacheOld]
    /\ UNCHANGED <<sessionVars, cacheVars, call, pg, flowVars>>

\* ============================================= requests and sessions
\* The requests in flight together with the token each one left with, over
\* logouts and logins made while they are in flight.
SentNone == [pending |-> {},
             last |-> [op |-> "none", status |-> 0, token |-> Null]]

\* a resource read leaves under the current session
SendUnderSession ==
    \E url \in ResourceUrls :
      LET req == [url |-> url, token |-> RequestAuthHeader(Cur)] IN
      /\ Cardinality(sent.pending) < MaxInFlight
      /\ req \notin sent.pending
      /\ sent' = [pending |-> sent.pending \cup {req},
                  last |-> [op |-> "send", status |-> 0, token |-> req.token]]
      /\ UNCHANGED <<sessionVars, cacheVars, call, pg, me, form, chat>>

\* the user logs out
SessionLogout ==
    /\ Apply([StoreLogout(storeVariant, Cur) EXCEPT !.route = "/auth"])
    /\ sent' = [sent EXCEPT !.last = [op |-> "logout", status |-> 0, token |-> Null]]
    /\ UNCHANGED <<storeVariant, authApiVariant, inflight, ev, cacheVars,
                   call, pg, me, form, chat>>

\* the user logs in: /auth/login answers 200 with a token
SessionLogin ==
    \E body \in ValidTokens :
      /\ Apply(LoginOnSuccess(storeVariant, Cur,
                 AccessTokenSeenByMutation(authApiVariant, body)).state)
      /\ sent' = [sent EXCEPT !.last = [op |-> "login", status |-> 200, token |-> body]]
      /\ UNCHANGED <<storeVariant, authApiVariant, inflight, ev, cacheVars,
                     call, pg, me, form, chat>>

\* a request in flight is answered; the response interceptor runs for every
\* answer that is not a success
AnswerArrives ==
    \E req \in sent.pending, status \in Statuses :
      /\ Apply(IF status = 200 THEN Cur
               ELSE ResponseInterceptor(storeVariant, Cur, status, req.url))
      /\ sent' = [pending |-> sent.pending \ {req},
                  last |-> [op |-> "answer", status |-> status, token |-> req.token]]
      /\ UNCHANGED <<storeVariant, authApiVariant, inflight, ev, cacheVars,
                     call, pg, me, form, chat>>

\* ========================================================= filter forms
\* CandidatesFiltersForm / VacanciesFiltersForm inside their pages: the
\* search text typed, the search filter of the url, the page of the url and
\* the 500 ms timer of the form's effect.
FilterTexts == {"", "a", "b"}

FormNone == [kind |-> "none", page |-> 1, applied |-> "", typed |-> "",
             timer |-> FALSE, last |-> "none"]

\* the page renders again: the form gets a new `filters` object and a new
\* `onChange` function, so the effects that depend on them run again. The
\* candidates form resets its fields to `filters` (effect on [filters]), the
\* vacancies form only when filters.search changed; both start the timer
\* anew (effect on [watched, onChange] / [searchValue, filters, onChange])
PageRerender(f) ==
    [f EXCEPT !.typed = IF f.kind = "candidates" THEN f.applied ELSE @,
              !.timer = TRUE]

\* setFilters: the filters go to the url and params.set('page', '1')
SetFiltersFromForm(f) ==
    PageRerender([f EXCEPT !.applied = f.typed, !.page = 1])

\* the user clicks a page of the pagination control: setPage
FormSelectPage ==
    /\ form.kind /= "none"
    /\ \E p \in 1..MaxPages :
         /\ p /= form.page
         /\ form' = [PageRerender([form EXCEPT !.page = p]) EXCEPT !.last = "page"]
    /\ UNCHANGED <<sessionVars, cacheVars, call, pg, me, sent, chat>>

\* the user types into the search field: the form renders with the new
\* watched value and its effect starts the timer anew
FormType ==
    /\ form.kind /= "none"
    /\ \E t \in FilterTexts :
         /\ t /= form.typed
         /\ form' = [form EXCEPT !.typed = t, !.timer = TRUE, !.last = "type"]
    /\ UNCHANGED <<sessionVars, cacheVars, call, pg, me, sent, chat>>

\* the timer fires: the candidates form calls onChange({...watched}), the
\* vacancies form only if the typed text differs from filters.search
FormDebounce ==
    /\ form.timer
    /\ form' = IF form.kind = "candidates" \/ form.typed /= form.applied
               THEN [SetFiltersFromForm(form) EXCEPT !.last = "onChange"]
               ELSE [form EXCEPT !.timer = FALSE, !.last = "idle"]
    /\ UNCHANGED <<sessionVars, cacheVars, call, pg, me, sent, chat>>

\* the page renders for another reason (the listing read is answered)
FormRerender ==
    /\ form.kind /= "none"
    /\ form' = [PageRerender(form) EXCEPT !.last = "render"]
    /\ UNCHANGED <<sessionVars, cacheVars, call, pg, me, sent, chat>>

\* ================================================ public interview chat
\* PublicInterviewPage: the step counter, the input field, the bot's
\* messages and the 800 ms reply timers, each holding the `step` its
\* handleSend closure saw.
MaxSends == 6

Questions == <<"q1", "q2", "q3", "q4", "q5">>

Completion == "done"

ChatNone == [step |-> 0, input |-> "", timers |-> <<>>, bot |-> <<>>,
             sends |-> 0]

\* the user types an answer: setInput
ChatType ==
    /\ chat.input = ""
    /\ chat' = [chat EXCEPT !.input = "answer"]
    /\ UNCHANGED <<sessionVars, cacheVars, call, pg, me, sent, form>>

\* handleSend: nothing for an empty input; otherwise the user's message is
\* added, the input cleared and a timer set whose callback reads the `step`
\* of the render that created this handleSend
HandleSend ==
    /\ chat.input /= ""
    /\ chat.sends < MaxSends
    /\ chat' = [chat EXCEPT !.input = "",
                            !.timers = Append(@, chat.step),
                            !.sends = @ + 1]
    /\ UNCHANGED <<sessionVars, cacheVars, call, pg, me, sent, form>>

\* the oldest timer fires (equal delays fire in the order they were set)
ReplyTimer ==
    /\ chat.timers /= <<>>
    /\ LET step == Head(chat.timers) IN
       chat' = IF step < Len(Questions)
               THEN [chat EXCEPT !.bot = Append(@, Questions[step + 1]),
                                 !.step = step + 1,
                                 !.timers = Tail(@)]
               ELSE [chat EXCEPT !.bot = Append(@, Completion),
                                 !.timers = Tail(@)]
    /\ UNCHANGED <<sessionVars, cacheVars, call, pg, me, sent, form>>

\* ------------------------------------------------------ specifications
CacheIdle ==
    /\ queries = [key \in AllKeys |-> EmptyQuery]
    /\ observers = [p \in HookParams |-> 0]
    /\ mutations = [k \in MutationKinds |-> 0]

SessionIdle ==
    /\ storeVariant = "A"
    /\ authApiVariant = "swallow"
    /\ ls = [k \in LSKeys |-> Null]
    /\ isLoggedIn = FALSE
    /\ user = Null
    /\ defAuth = Null
    /\ route = "/"
    /\ inflight = [u \in Urls |-> 0]
    /\ ev = EvNone

ApiIdle == call = CallNone

PageIdle == pg = PgNone

ProfileIdle == me = MeNone

SentIdle == sent = SentNone

FormIdle == form = FormNone

ChatIdle == chat = ChatNone

FlowIdle == SentIdle /\ FormIdle /\ ChatIdle

Init == SessionInit /\ CacheIdle /\ ApiIdle /\ PageIdle /\ ProfileIdle /\ FlowIdle

Next ==
    \/ SubmitLogin
    \/ FetchCurrentUser
    \/ ReadResource
    \/ LoginResponse
    \/ MeResponse
    \/ ResourceResponse
    \/ UserLogout
    \/ CallLogin
    \/ CallSetUser
    \/ GuardRedirect
    \/ Navigate

Spec == Init /\ [][Next]_vars

CacheInit == SessionIdle /\ CacheIdle /\ ApiIdle /\ PageIdle /\ ProfileIdle /\ FlowIdle

CacheNext ==
    \/ ReadList
    \/ ReadById
    \/ Unmount
    \/ ResolveFetch
    \/ ResolveOrphan
    \/ StaleTimeElapses
    \/ StartCreate
    \/ StartUpdate
    \/ CreateSettles
    \/ UpdateSettles

CacheSpec == CacheInit /\ [][CacheNext]_vars

\* the resource access functions called one after another, in either source
\* of services/api/auth
ApiInit ==
    /\ storeVariant = "A"
    /\ authApiVariant \in AuthApiVariants
    /\ ls = [k \in LSKeys |-> Null]
    /\ isLoggedIn = FALSE
    /\ user = Null
    /\ defAuth = Null
    /\ route = "/"
    /\ inflight = [u \in Urls |-> 0]
    /\ ev = EvNone
    /\ CacheIdle /\ ApiIdle /\ PageIdle /\ ProfileIdle /\ FlowIdle

ApiNext ==
    \/ CallRead
    \/ CallWrite

ApiSpec == ApiInit /\ [][ApiNext]_vars

\* a listing page opened at any url and used through its controls
PageInit == SessionIdle /\ CacheIdle /\ ApiIdle /\ PageIdle /\ ProfileIdle /\ FlowIdle

PageNext ==
    \/ OpenUrl
    \/ LoadListing
    \/ ClickPrevious
    \/ ClickNext
    \/ ClickNumber
    \/ SetFilters

PageSpec == PageInit /\ [][PageNext]_vars

\* the chat page from its first render
ChatInit ==
    /\ SessionIdle /\ CacheIdle /\ ApiIdle /\ PageIdle /\ ProfileIdle
    /\ SentIdle /\ FormIdle /\ ChatIdle

ChatNext ==
    \/ ChatType
    \/ HandleSend
    \/ ReplyTimer

ChatSpec == ChatInit /\ [][ChatNext]_vars

\* a listing page opened at any page and search filter, its form mounted
FormInit ==
    /\ SessionIdle /\ CacheIdle /\ ApiIdle /\ PageIdle /\ ProfileIdle
    /\ SentIdle /\ ChatIdle
    /\ \E kind \in ListingPages, p \in 1..MaxPages, t \in FilterTexts :
          form = [kind |-> kind, page |-> p, applied |-> t, typed |-> t,
                  timer |-> TRUE, last |-> "open"]

FormNext ==
    \/ FormSelectPage
    \/ FormType
    \/ FormDebounce
    \/ FormRerender

FormSpec == FormInit /\ [][FormNext]_vars

\* the cache under reads and deletes
DeleteNext ==
    \/ ReadList
    \/ ReadById
    \/ Unmount
    \/ ResolveFetch
    \/ ResolveOrphan
    \/ StaleTimeElapses
    \/ StartDelete
    \/ DeleteSettles

DeleteSpec == CacheInit /\ [][DeleteNext]_vars

\* requests, logouts and logins in any order
RaceInit ==
    /\ SessionInit /\ CacheIdle /\ ApiIdle /\ PageIdle /\ ProfileIdle
    /\ SentIdle /\ FormIdle /\ ChatIdle

RaceNext ==
    \/ SendUnderSession
    \/ SessionLogout
    \/ SessionLogin
    \/ AnswerArrives

RaceSpec == RaceInit /\ [][RaceNext]_vars

\* the router under any requested path, with the store operations that
\* change what the guards read
GuardInit ==
    /\ storeVariant \in StoreVariants
    /\ authApiVariant = "swallow"
    /\ ls \in {st \in InitStorages :
                 st["TOKEN"] = Null =>
                    st["REFRESH_TOKEN"] = Null /\ st["USER"] = Null}
    /\ isLoggedIn = GetInitialUserState(storeVariant, ls).isLoggedIn
    /\ user = GetInitialUserState(storeVariant, ls).user
    /\ defAuth = Null
    /\ route \in RequestedPaths
    /\ inflight = [u \in Urls |-> 0]
    /\ ev = EvNone
    /\ CacheIdle /\ ApiIdle /\ PageIdle /\ ProfileIdle /\ FlowIdle

GuardNext ==
    \/ OpenPath
    \/ NotFoundRedirect
    \/ GuardRedirect
    \/ UserLogout
    \/ CallLogin
    \/ CallSetUser

GuardSpec == GuardInit /\ [][GuardNext]_vars

\* the current-user hook over any stored session, the cached profile of
\* any age
ProfileInit ==
    /\ SessionInit /\ CacheIdle /\ ApiIdle /\ PageIdle /\ FlowIdle
    /\ \E old \in BOOLEAN :
          /\ old => ls["USER_UPDATED_AT"] /= Null
          /\ me = [MeNone EXCEPT !.cacheOld = old]

ProfileNext ==
    \/ MountUserHook
    \/ UnmountUserHook
    \/ UserFetchSucceeds
    \/ UserFetchFails
    \/ FiveMinutesPass
    \/ ReloadApplication

ProfileSpec == ProfileInit /\ [][ProfileNext]_vars

\* =================================================================== claims
\* C1: when a 401 arrives for a request other than the login request, the
\* state the calling function sees when the failure reaches it is already
\* logged out: isLoggedIn = FALSE, user = null, no stored token -- whatever
\* the resource function and whatever the session was before.
C1_Forced401BeforeSurface ==
    (ev.op = "response" /\ ev.status = 401 /\ ev.url /= LoginUrl) =>
        /\ ev.result /= "ok"
        /\ ev.atSurface.isLoggedIn = FALSE
        /\ ev.atSurface.user = Null
        /\ ev.atSurface.token = Null

\* a logged-in session with a stored token and a request in flight, the
\* state from which the 401 of C1 is delivered ...
LoggedInWithToken ==
    isLoggedIn /\ user /= Null /\ ls["TOKEN"] \in ValidTokens

\* ... and the state right after it
C1_Witness ==
    /\ ev.op = "response" /\ ev.status = 401 /\ ev.url \in ResourceUrls
    /\ ev.forced /\ ev.result = "null"
    /\ ls["TOKEN"] = Null /\ ~isLoggedIn

\* C2: a 401 answer to /auth/login leaves isLoggedIn, user and every
\* persisted key (and the axios default header and the route) as they were,
\* and the login mutation ends with the "invalid login or password" error.
C2_Login401LeavesSession ==
    [][(ev'.op = "response" /\ ev'.url = LoginUrl /\ ev'.status = 401) =>
          /\ Cur' = Cur
          /\ ev'.result = "fail"
          /\ ev'.msg = InvalidCredentials]_vars

C2_Witness ==
    /\ ev.op = "response" /\ ev.url = LoginUrl /\ ev.status = 401
    /\ ev.msg = InvalidCredentials
    /\ LoggedInWithToken /\ ls["USER"] /= Null /\ ls["REFRESH_TOKEN"] /= Null

\* C3 (as claimed): a 401 or 403 forces the logout and clears the token,
\* except for the login request, whose failure with 401 or with 403 never
\* forces the logout and leaves the session as it was.
C3_FailedLoginNeverForcesLogout ==
    [][(ev'.op = "response" /\ ev'.status \in {401, 403}) =>
          IF ev'.url = LoginUrl
          THEN ~ev'.forced /\ Cur' = Cur
          ELSE ev'.forced /\ ev'.atSurface.token = Null /\ defAuth' = Null]_vars

\* C4 (as claimed): every request leaves with an Authorization header iff a
\* token is stored, and the header carries the stored token.
C4_HeaderIffStoredToken ==
    ev.op = "send" =>
        ev.header = (IF Truthy(ls["TOKEN"]) THEN ls["TOKEN"] ELSE Null)

\* C5 (as claimed): after a successful /auth/login answer carrying
\* access_token T the token store holds exactly T, and if T decodes the
\* session is authenticated with the decoded profile.
C5_LoginSuccessStoresToken ==
    (ev.op = "response" /\ ev.url = LoginUrl /\ ev.status = 200
        /\ ev.body /= Null) =>
        /\ ls["TOKEN"] = ev.body
        /\ CanDecode(ev.body) => (isLoggedIn /\ user = JwtDecode(ev.body))

\* C6 (as claimed): after login() the session is authenticated with the
\* decoded profile when the stored token decodes, and is unauthenticated with
\* no user when the token is absent or does not decode -- from every prior
\* session state.
C6_LoginOutcome ==
    [][ev'.op = "login" =>
          IF Truthy(ls["TOKEN"]) /\ CanDecode(ls["TOKEN"])
          THEN isLoggedIn' /\ user' = JwtDecode(ls["TOKEN"])
          ELSE ~isLoggedIn' /\ user' = Null]_vars

\* the step ends in the state logout() produces from the state it began in
LoginFailedClosed ==
    /\ Cur' = StoreLogout(storeVariant, Cur)
    /\ ~isLoggedIn' /\ user' = Null
    /\ ls'["TOKEN"] = Null /\ ls'["REFRESH_TOKEN"] = Null
    /\ storeVariant = "A" => (ls'["USER"] = Null /\ ls'["USER_UPDATED_AT"] = Null)

\* C7 (as claimed): when login() cannot decode the stored token the state is
\* the one logout() produces from the same start, and the decode error reaches
\* the caller of login().
C7_DecodeFailureSurfaced ==
    [][(ev'.op = "login" /\ ev'.decodeFailed) =>
          (LoginFailedClosed /\ ev'.thrown)]_vars

\* C7 (amended): when login() cannot decode the stored token the state is
\* the one logout() produces from the same start (flags cleared, token and
\* refresh token removed, cached profile removed where logout removes it);
\* the decode error is written to the console and login() returns normally.
C7_DecodeFailureLogged ==
    [][(ev'.op = "login" /\ ev'.decodeFailed) =>
          (LoginFailedClosed /\ ev'.logged /\ ~ev'.thrown)]_vars

C7_Witness ==
    /\ ev.op = "login" /\ ev.decodeFailed /\ ev.logged
    /\ ~isLoggedIn /\ ls["TOKEN"] = Null

\* C8: logout() always succeeds and is idempotent: the state right after a
\* logout (user-initiated or forced) is a fixed point of logout(), and a
\* second logout in a row changes neither the session flags, nor any
\* persisted key, nor the route.
C8_LogoutIdempotent ==
    [][/\ (ev'.op = "logout" \/ (ev'.op = "response" /\ ev'.forced)) =>
              StoreLogout(storeVariant, Cur') = Cur'
       /\ ev'.op = "logout" => ~ev'.thrown
       /\ (ev'.op = "logout" /\ ev'.repeat) => Cur' = Cur]_vars

C8_Witness ==
    /\ ev.op = "logout" /\ ev.repeat
    /\ ~isLoggedIn /\ ls["TOKEN"] = Null /\ ls["REFRESH_TOKEN"] = Null

\* steps of the cache, told by what they change: only a hook's mount adds an
\* observer, only a fetch's answer ends the fetching of an entry, only a
\* settled write takes a write out of flight
ReadOf(p) == observers' = [observers EXCEPT ![p] = @ + 1]

ResolveOf(key) == queries[key].fetching /\ ~queries'[key].fetching

FailedResolveOf(key) == ResolveOf(key) /\ queries'[key].data = "null"

SettledWith(kind) == mutations' = [mutations EXCEPT ![kind] = @ - 1]

SameFieldsAndValues(p, q) ==
    {p[n] : n \in 1..Len(p)} = {q[n] : n \in 1..Len(q)}

\* C10 (as claimed): two list reads whose parameter objects hold the same
\* fields with the same values use the same cache key, whatever the order in
\* which the properties were inserted.
C10_KeyIgnoresInsertionOrder ==
    \A p, q \in ReadParams :
        (/\ observers[p] > 0 /\ observers[q] > 0
         /\ SameFieldsAndValues(p, q))
        => HookKey(p) = HookKey(q)

\* C11 (as claimed): once an update has succeeded, the record's by-id entry
\* and every cached listing entry are invalidated for good: an entry that
\* holds a value, which is from before the update, is marked stale, and no
\* request sent before the update is left as the entry's current fetch, so
\* that what the entry serves next reflects the update.
C11_UpdateLeavesNoOldValue ==
    [][(SettledWith("update") /\ queries' /= queries) =>
          \A key \in AllKeys :
              /\ queries'[key].data /= NoData => queries'[key].stale
              /\ ~(queries'[key].fetching /\ queries'[key].fetchOld)]_vars

\* C12 (as claimed): once a create has succeeded, every listing entry is
\* invalidated and the listing read that comes next is served by a fetch
\* sent after the create: it starts one, or joins one that is not older
\* than the new record.
C12_CreateRefreshesListings ==
    [][(SettledWith("create") /\ queries' /= queries) =>
          \A p \in ReadParams :
              /\ queries'[HookKey(p)].stale
              /\ UseQueryRead(queries'[HookKey(p)])
                    \/ ~queries'[HookKey(p)].fetchOld]_vars

\* C13 (as claimed): a failed fetch leaves no fetch marked in flight, and the
\* next read of the same key sends a new request.
C13_FailedReadIsRetried ==
    [][/\ \A key \in AllKeys : FailedResolveOf(key) => ~queries'[key].fetching
       /\ \A p \in HookParams :
              (/\ ReadOf(p)
               /\ queries[HookKey(p)].data = "null"
               /\ ~queries[HookKey(p)].fetching)
              => queries'[HookKey(p)].fetching]_vars

\* C13 (amended): a failed fetch leaves no fetch marked in flight and the
\* null sentinel as the entry's data; the next read of a listing key sends a
\* new request, the next read of a by-id key sends one only once the entry
\* is stale (its 5 minutes have passed or it was invalidated) and is answered
\* with the sentinel until then.
C13_FailedReadReleasesSlot ==
    [][/\ \A key \in AllKeys : FailedResolveOf(key) => ~queries'[key].fetching
       /\ \A p \in HookParams :
              (/\ ReadOf(p)
               /\ queries[HookKey(p)].data = "null"
               /\ ~queries[HookKey(p)].fetching)
              => /\ StaleTimeZero(HookKey(p)) => queries'[HookKey(p)].fetching
                 /\ queries'[HookKey(p)].fetching <=> queries[HookKey(p)].stale
                 /\ queries'[HookKey(p)].data = "null"]_vars

\* a hook mounted on a by-id entry that holds the sentinel of a failed fetch
\* and is neither fetching nor stale
C13_Witness ==
    \E id \in CandidateIds :
        /\ IsActive(ByIdQueryKey(id))
        /\ queries[ByIdQueryKey(id)].data = "null"
        /\ ~queries[ByIdQueryKey(id)].fetching
        /\ ~queries[ByIdQueryKey(id)].stale

\* C20: in the state a write's success handler leaves, every entry the
\* handler names is already invalidated: marked stale, and being fetched
\* again if a hook is mounted on it; no state lies between the success and
\* the invalidation.
C20_InvalidatedWithSuccess ==
    [][\A kind \in MutationKinds :
          (SettledWith(kind) /\ queries' /= queries) =>
              \A key \in AllKeys, id \in CandidateIds :
                  Invalidated(kind, id, key) =>
                      /\ queries'[key].stale
                      /\ IsActive(key) => queries'[key].fetching]_vars

\* the record's entry, which nobody is mounted on, holds a value and is
\* marked stale, and a listing a hook is mounted on holds a value and is
\* being fetched again by a request sent after the write
C20_Witness ==
    \E id \in CandidateIds, p \in ReadParams :
        /\ ~IsActive(ByIdQueryKey(id))
        /\ queries[ByIdQueryKey(id)].data = "data"
        /\ queries[ByIdQueryKey(id)].stale
        /\ observers[p] > 0
        /\ queries[HookKey(p)].data = "data"
        /\ queries[HookKey(p)].fetching /\ ~queries[HookKey(p)].fetchOld

CallFailed == call.op /= "none" /\ call.error /= NoError

\* C14 (as claimed): when a listing read fails with a network error, a 4xx
\* other than 401/403 or a 5xx, the query is in its error state and the
\* page shows its failure banner with the retry button, not an empty
\* listing.
C14_FailedListReadShowsBanner ==
    (/\ call.op \in ListReadOps /\ CallFailed
     /\ call.error.status \notin {401, 403}) =>
        /\ QueryState(call.result).status = "error"
        /\ call.view = "banner"

\* C15 (as claimed): every resource access function returns the payload on
\* success; on failure every read returns a null/empty sentinel and does
\* not throw, and every write throws, so that the caller's failure handler
\* (onError) receives the failure.
C15_ReadsReturnWritesPropagate ==
    /\ (call.op /= "none" /\ ~CallFailed) =>
           ~call.result.thrown /\ call.result.value \in {"payload", "true"}
    /\ (call.op \in ReadOps /\ CallFailed) =>
           ~call.result.thrown /\ call.result.value = "null"
    /\ (call.op \in WriteOps /\ CallFailed) =>
           call.result.thrown /\ call.callback = "onError"

\* what the claim has handleApiError choose
ChosenText(error, defaultMessage) ==
    OrElse(OrElse(error.message, error.statusText), defaultMessage)

\* C16 (as claimed): for every error value and default text handleApiError
\* returns, without throwing, the server's message when present, otherwise
\* the status text when present, otherwise the default text.
C16_MessageIsChosenText ==
    CallFailed =>
        call.result.message = <<ChosenText(call.error, DefaultMessage(call.op))>>

\* C16 (amended): for every error value and default text handleApiError
\* returns without throwing; for an AxiosError it returns the default text,
\* ': ' and a detail, the detail being the body's message when non-empty,
\* otherwise the status text when non-empty, otherwise the fixed text
\* 'Neizvestnaya oshibka'; for any other value it returns the default text.
C16_MessageIsDefaultAndDetail ==
    CallFailed =>
        LET d == DefaultMessage(call.op)
            e == call.error IN
        call.result.message =
            IF e.kind /= "axios" THEN <<d>>
            ELSE IF e.message \notin {Absent, ""} THEN <<d, ": ", e.message>>
            ELSE IF e.statusText \notin {Absent, ""} THEN <<d, ": ", e.statusText>>
            ELSE <<d, ": ", UnknownError>>

\* an answer without a body message but with a status text
C16_Witness ==
    /\ CallFailed /\ call.error.kind = "axios"
    /\ call.error.message = Absent /\ call.error.statusText = "Bad Request"
    /\ call.result.message = <<DefaultMessage(call.op), ": ", "Bad Request">>

\* C17 (as claimed): for any url page parameter and any sequence of
\* previous/next/page-number clicks, the current page a listing read is
\* made for and the pagination control shows lies in 1..total_pages, and an
\* out-of-range page is never on screen with the rows of another page.
C17_CurrentPageInRange ==
    pg.page /= "none" =>
        LET cur == CurrentPage(pg.param) IN
        /\ pg.reading => InRange(cur, pg.serverPages)
        /\ ControlShown => InRange(cur, TotalPages(pg.data))
        /\ (pg.data.loaded /\ ~InRange(cur, pg.serverPages)) => pg.data.rows = 0

UserFetchSucceeded == me.fetching /\ ~me'.fetching /\ me'.status = "success"
                        /\ me'.data \in Profiles

\* C19 (as claimed): a cached profile younger than five minutes is the
\* displayed value without waiting for a fetch; an older one makes the hook
\* fetch, but the cached copy stays the displayed value until a fetch
\* succeeds, also when the fetch fails: no step other than a successful
\* fetch removes the cached copy or leaves the mounted hook showing
\* anything else.
C19_CachedProfileIsFallback ==
    [][(ls["USER"] /= Null /\ ~UserFetchSucceeded) =>
          /\ ls'["USER"] = ls["USER"]
          /\ me'.mounted =>
                /\ me'.data = GetCachedUser(ls)
                /\ CacheIsStale(ls, me'.cacheOld) \/ ~me'.fetching]_vars

\* C21 (as claimed): only the session store writes the token store: a step
\* that changes the persisted token leaves it as login() or logout(), run
\* in the state the step began in, would leave it; the http wrapper, the
\* mutation hooks, the queries and the pages write no token of their own.
C21_OnlyStoreWritesToken ==
    [][ls'["TOKEN"] /= ls["TOKEN"] =>
          ls'["TOKEN"] \in {StoreLogin(storeVariant, Cur).state.ls["TOKEN"],
                            StoreLogout(storeVariant, Cur).ls["TOKEN"]}]_vars

\* C22 (as claimed): at process start the session is authenticated iff a
\* token is stored and decodes to a profile; with no token or an
\* undecodable one isLoggedIn = false and user = null, and the guards render
\* no protected page.
C22_InitialStateFailClosed ==
    ev.op = "none" =>
        LET decodes == Truthy(ls["TOKEN"]) /\ CanDecode(ls["TOKEN"]) IN
        /\ isLoggedIn <=> decodes
        /\ decodes => user = JwtDecode(ls["TOKEN"])
        /\ ~decodes =>
              /\ ~isLoggedIn /\ user = Null
              /\ RouteElement(route, isLoggedIn) \in {"Navigate", "AuthPage"}

\* C23 (as claimed): in every state reachable through login(), logout(),
\* setUser(), the login mutation and the forced logout, isLoggedIn = true
\* implies that a token is present in persistent storage.
C23_LoggedInImpliesToken ==
    isLoggedIn => Truthy(ls["TOKEN"])

\* C24: for every session state and every requested path the guards'
\* redirects terminate: the page a guard redirects to has a guard that
\* accepts the session state, so a guard redirect is never followed by a
\* second one, and ProtectedRoute and AuthProtectedRoute never redirect to
\* each other.
C24_RedirectsSettle ==
    [][/\ ev'.op = "redirect" =>
              /\ route' \in Routes
              /\ GuardTarget(route', isLoggedIn') = route'
              /\ RouteElement(route', isLoggedIn') = PageAt(route')
       /\ \A b \in BOOLEAN, p \in Routes :
              GuardTarget(GuardTarget(p, b), b) = GuardTarget(p, b)]_vars

\* an unknown path requested without a session: to "/", then one guard
\* redirect to the login page, which stays
C24_Witness ==
    /\ ev.op = "redirect" /\ route = "/auth" /\ ~isLoggedIn
    /\ RouteElement(route, isLoggedIn) = "AuthPage"

\* C25 (as claimed): in every reachable state, when no token is stored no
\* cached user profile (USER, USER_UPDATED_AT) is stored either, also when
\* a logout happens while a current-user fetch is in flight and the answer
\* arrives after it.
C25_NoProfileWithoutToken ==
    ls["TOKEN"] = Null => (ls["USER"] = Null /\ ls["USER_UPDATED_AT"] = Null)

\* C26 (as claimed): a 401 or 403 answer to a request that left under an
\* earlier session, with a token other than the one now stored, does not
\* log out the session that exists now and does not remove its token.
C26_StaleAnswerSparesNewSession ==
    [][(/\ sent'.last.op = "answer" /\ sent'.last.status \in {401, 403}
        /\ Truthy(sent'.last.token) /\ Truthy(ls["TOKEN"])
        /\ sent'.last.token /= ls["TOKEN"]) =>
          /\ ls'["TOKEN"] = ls["TOKEN"]
          /\ isLoggedIn' = isLoggedIn /\ user' = user]_vars

\* C27 (as claimed): for the delete, start-interview and end-interview
\* mutations the success handler (success notification and cache
\* invalidation) runs only when the server request succeeded; when the
\* request fails the failure handler runs and no success notification is
\* shown.
C27_SuccessHandlerOnlyOnSuccess ==
    (call.op \in BooleanOps /\ CallFailed) =>
        /\ call.callback = "onError"
        /\ call.handler.toast /= "success" /\ call.result.toast /= "success"
        /\ ~call.handler.invalidates

\* C28 (as claimed): after a delete of the record with id X succeeds, a
\* subsequent read of the by-id key of X never returns the cached record
\* from before the delete, also within the key's five minutes: the step that
\* completes the delete leaves that entry, if it still holds the record,
\* stale, so that the next read fetches, and with no fetch in flight that
\* was sent before the delete.
C28_DeleteDropsCachedRecord ==
    [][\A id \in CandidateIds :
          MutationAnswered("delete", id, TRUE) =>
              LET q == queries'[ByIdQueryKey(id)] IN
              /\ q.data = "data" => q.stale
              /\ ~(q.fetching /\ q.fetchOld)]_vars

\* C29 (as claimed): on the candidates page, after the user selects page p
\* and gives no further input the current page stays p: the debounced form
\* calls onChange, which resets the page to 1, only after the user changed
\* a filter value, never because of a render alone.
C29_PageStaysWithoutInput ==
    [][form.kind = "candidates" =>
          /\ form'.last = "onChange" => form.typed /= form.applied
          /\ (form.last = "page" /\ form'.last \notin {"page", "type"}) =>
                 form'.page = form.page]_vars

\* the position of a question in the script
QuestionIndex(text) == CHOOSE i \in 1..Len(Questions) : Questions[i] = text

QuestionPosts == {i \in DOMAIN chat.bot : chat.bot[i] /= Completion}

\* C30 (as claimed): for any interleaving of sends and reply timers the bot
\* posts the scripted questions in script order and each at most once, the
\* step counter is the number of answered sends that got a question and
\* never exceeds the number of questions, and the completion message is
\* posted only after every question has been posted.
C30_ScriptInOrderOnce ==
    /\ \A i, j \in QuestionPosts :
          i < j => QuestionIndex(chat.bot[i]) < QuestionIndex(chat.bot[j])
    /\ chat.step = Cardinality(QuestionPosts)
    /\ chat.step <= Len(Questions)
    /\ \A i \in DOMAIN chat.bot :
          chat.bot[i] = Completion =>
              \A q \in 1..Len(Questions) :
                  \E j \in 1..(i - 1) : chat.bot[j] = Questions[q]

====
